---- MODULE Spec2Model ----
(***************************************************************************)
(* Model of myapp.py, the Streamlit "IGNOU AI Tutor" app.                  *)
(*                                                                         *)
(* Streamlit executes the whole script once per user interaction.  Two     *)
(* specifications are given:                                               *)
(*   Spec      the script as written, statement by statement at module     *)
(*             level (page config, API key, model loading, entry guard);   *)
(*   SpecMain  the operation main() and the page renderers it dispatches   *)
(*             to, one action per renderer, each a whole run of it.        *)
(* Strings that the code inspects are sequences of one-character strings.  *)
(***************************************************************************)
EXTENDS Integers, Sequences, FiniteSets, TLC

VARIABLES
    has_api_key,        \* "GEMINI_API_KEY" in st.secrets
    gemini_cached,      \* st.cache_resource holds load_gemini_model()'s result
    summarizer_cached,  \* st.cache_resource holds load_summarizer_pipeline()'s result
    pc,                 \* position of the current script run at module level
    run_log,            \* what the current script run has done so far, in order
    uncaught,           \* exception that ended the run uncaught, or "none"
    runs,               \* script runs started
    session_state,      \* st.session_state: a dict
    page,               \* page renderer invoked by the last main(), or "none"
    run_inputs,         \* widget values and external outcomes of the last main()
    screen,             \* elements the last renderer put on the page, in order
    uploaded_file,      \* render_notes_summarizer: the file of the last run
    text_content,       \* render_notes_summarizer: the text extracted
    model_calls,        \* calls of summarizer_model made by the last run
    summary_out         \* summary displayed by the last run: its parts, in order

vars == <<has_api_key, gemini_cached, summarizer_cached, pc, run_log, uncaught,
          runs, session_state, page, run_inputs, screen, uploaded_file,
          text_content, model_calls, summary_out>>

script_vars == <<has_api_key, gemini_cached, summarizer_cached, pc, run_log,
                 uncaught, runs>>

page_vars == <<session_state, page, run_inputs, screen, uploaded_file,
               text_content, model_calls, summary_out>>

(***************************************************************************)
(* Bounds                                                                  *)
(***************************************************************************)
MaxRuns == 5
MaxTurns == 2
MaxPages == 2
MaxChunkSize == 2

(***************************************************************************)
(* Values                                                                  *)
(***************************************************************************)
Range(s) == {s[i] : i \in 1..Len(s)}

NoInputs == [kind |-> "none"]

NoFile == [type |-> "none", ok |-> TRUE, pages |-> <<>>, content |-> <<>>]

EmptyDict == <<>>

\* Python truthiness of a dict or a str: not empty.
Truthy(d) == DOMAIN d # {}

HasKey(d, k) == k \in DOMAIN d

\* d.get(k, default)
Get(d, k, default) == IF HasKey(d, k) THEN d[k] ELSE default

\* d[k] = v on a dict
SetItem(d, k, v) == [x \in DOMAIN d \cup {k} |-> IF x = k THEN v ELSE d[x]]

\* Values a user types into a one-line text field, and into a URL text area.
FieldValues == {"", "a"}
UrlValues == {"u"}
\* Questions typed into the chat box, and continuations Gemini returns.
Prompts == {"q"}
Replies == {"r"}
\* Text of one PDF page as page.extract_text() returns it, and of a .txt upload.
PageTexts == {<<>>, <<" ">>, <<"a">>}
TextBlobs == {<<>>, <<" ", "\n">>, <<"a">>, <<"a", "b", "c">>}
\* summary_text values the summarization pipeline returns.
Summaries == {"s"}

SeqsUpTo(S, n) == UNION {[1..k -> S] : k \in 0..n}

PdfFile(ok, pages) ==
    [type |-> "application/pdf", ok |-> ok, pages |-> pages, content |-> <<>>]

TxtFile(ok, content) ==
    [type |-> "text/plain", ok |-> ok, pages |-> <<>>, content |-> content]

\* What st.file_uploader(type=["pdf", "txt"]) can return.  ok = FALSE is a file
\* that PdfReader cannot parse, or bytes that are not UTF-8.
Uploads ==
    {NoFile}
    \cup {PdfFile(TRUE, ps) : ps \in SeqsUpTo(PageTexts, MaxPages)}
    \cup {PdfFile(FALSE, <<>>)}
    \cup {TxtFile(TRUE, c) : c \in TextBlobs}
    \cup {TxtFile(FALSE, <<>>)}

(***************************************************************************)
(* The script at module level                                              *)
(***************************************************************************)
Init ==
    /\ has_api_key \in BOOLEAN
    /\ gemini_cached = FALSE
    /\ summarizer_cached = FALSE
    /\ pc = "idle"
    /\ run_log = <<>>
    /\ uncaught = "none"
    /\ runs = 0
    /\ session_state = EmptyDict
    /\ page = "none"
    /\ run_inputs = NoInputs
    /\ screen = <<>>
    /\ uploaded_file = NoFile
    /\ text_content = <<>>
    /\ model_calls = <<>>
    /\ summary_out = <<>>

\* The deployment's secret store is edited between script runs.
EditSecrets ==
    /\ pc \in {"idle", "ended"}
    /\ has_api_key' = ~has_api_key
    /\ UNCHANGED <<gemini_cached, summarizer_cached, pc, run_log, uncaught, runs>>
    /\ UNCHANGED page_vars

\* A user interaction starts a script run; st.set_page_config is its first call.
StartRun ==
    /\ pc \in {"idle", "ended"}
    /\ runs < MaxRuns
    /\ runs' = runs + 1
    /\ run_log' = <<"set_page_config">>
    /\ uncaught' = "none"
    /\ pc' = "configure"
    /\ UNCHANGED <<has_api_key, gemini_cached, summarizer_cached>>
    /\ UNCHANGED page_vars

\* try: genai.configure(api_key=st.secrets[...]) except: st.error(...); st.stop()
ConfigureMissingKeyContinues ==
    /\ pc = "configure"
    /\ run_log' = run_log \o (IF has_api_key THEN <<"configure">> ELSE <<"st.error">>)
    /\ pc' = "load_gemini"
    /\ UNCHANGED <<has_api_key, gemini_cached, summarizer_cached, uncaught, runs>>
    /\ UNCHANGED page_vars

Configure ==
    /\ pc = "configure"
    /\ IF has_api_key
       THEN /\ run_log' = Append(run_log, "configure")
            /\ pc' = "load_gemini"
       ELSE /\ run_log' = run_log \o <<"st.error", "st.stop">>
            /\ pc' = "ended"
    /\ UNCHANGED <<has_api_key, gemini_cached, summarizer_cached, uncaught, runs>>
    /\ UNCHANGED page_vars

\* model = load_gemini_model(): cached after the first call that returns.
load_gemini_model ==
    /\ pc = "load_gemini"
    /\ \/ /\ gemini_cached
          /\ run_log' = Append(run_log, "gemini_model")
          /\ pc' = "load_summarizer"
          /\ UNCHANGED <<gemini_cached, uncaught>>
       \/ /\ ~gemini_cached
          /\ gemini_cached' = TRUE
          /\ run_log' = Append(run_log, "gemini_model")
          /\ pc' = "load_summarizer"
          /\ UNCHANGED uncaught
       \/ /\ ~gemini_cached
          /\ uncaught' = "load_gemini_model"
          /\ pc' = "ended"
          /\ UNCHANGED <<gemini_cached, run_log>>
    /\ UNCHANGED <<has_api_key, summarizer_cached, runs>>
    /\ UNCHANGED page_vars

\* summarizer_model = load_summarizer_pipeline(): the HuggingFace pipeline.
load_summarizer_pipeline ==
    /\ pc = "load_summarizer"
    /\ \/ /\ summarizer_cached
          /\ run_log' = Append(run_log, "summarizer_model")
          /\ pc' = "guard"
          /\ UNCHANGED <<summarizer_cached, uncaught>>
       \/ /\ ~summarizer_cached
          /\ summarizer_cached' = TRUE
          /\ run_log' = Append(run_log, "summarizer_model")
          /\ pc' = "guard"
          /\ UNCHANGED uncaught
       \/ /\ ~summarizer_cached
          /\ uncaught' = "load_summarizer_pipeline"
          /\ pc' = "ended"
          /\ UNCHANGED <<summarizer_cached, run_log>>
    /\ UNCHANGED <<has_api_key, gemini_cached, runs>>
    /\ UNCHANGED page_vars

\* if _name_ == "_main_": main()   -- _name_ is not defined: NameError.
EntryGuard ==
    /\ pc = "guard"
    /\ uncaught' = "NameError"
    /\ pc' = "ended"
    /\ UNCHANGED <<has_api_key, gemini_cached, summarizer_cached, run_log, runs>>
    /\ UNCHANGED page_vars

Next ==
    \/ EditSecrets
    \/ StartRun
    \/ Configure
    \/ load_gemini_model
    \/ load_summarizer_pipeline
    \/ EntryGuard

Spec == Init /\ [][Next]_vars

(***************************************************************************)
(* Text helpers                                                            *)
(***************************************************************************)
Whitespace == {" ", "\n"}

\* not text_content.strip()
IsBlankOnlyWhenEmpty(text) == text = <<>>

IsBlank(text) == \A i \in 1..Len(text) : text[i] \in Whitespace

\* the generator's filter "if page.extract_text()": pages whose text is truthy
PagesWithTextKeepsAll(pages) == pages

RECURSIVE PagesWithText(_)
PagesWithText(pages) ==
    IF pages = <<>> THEN <<>>
    ELSE (IF Len(Head(pages)) > 0 THEN <<Head(pages)>> ELSE <<>>)
         \o PagesWithText(Tail(pages))

\* "\n".join(parts)
RECURSIVE JoinNewline(_)
JoinNewline(parts) ==
    IF parts = <<>> THEN <<>>
    ELSE IF Len(parts) = 1 THEN Head(parts)
    ELSE Head(parts) \o <<"\n">> \o JoinNewline(Tail(parts))

\* The try-block's extraction: [ok, text]; ok = FALSE when PdfReader or
\* decode("utf-8") raises.
ExtractText(file) ==
    IF ~file.ok THEN [ok |-> FALSE, text |-> <<>>]
    ELSE IF file.type = "application/pdf"
         THEN [ok |-> TRUE, text |-> JoinNewline(PagesWithText(file.pages))]
         ELSE [ok |-> TRUE, text |-> file.content]

\* summarizer_model(text_content, max_length=150, min_length=40, do_sample=False)
SummaryMaxLength == 150
SummaryMinLength == 40
SummarizerCalls(text, outcome) ==
    << [text |-> text, max_length |-> SummaryMaxLength,
        min_length |-> SummaryMinLength, ok |-> outcome = "ok"] >>

(***************************************************************************)
(* Page renderers: each action is one whole run of the function            *)
(***************************************************************************)
\* the dict literal saved by "Save Details"
SavedDetailsSwapped(name, enrollment, college) ==
    [Name |-> enrollment, Enrollment |-> name, College |-> college]

SavedDetails(name, enrollment, college) ==
    [Name |-> name, Enrollment |-> enrollment, College |-> college]

\* if "student_data" not in st.session_state: st.session_state.student_data = {}
InitStudentData(s) ==
    IF ~HasKey(s, "student_data") THEN SetItem(s, "student_data", EmptyDict) ELSE s

\* st.text_input(label, st.session_state.student_data.get(key, "")): what the
\* field holds until the user submits the form with something else
StudentDefault(key) == Get(InitStudentData(session_state).student_data, key, "")

render_home(name, enrollment, college, submitted) ==
    LET s1 == InitStudentData(session_state)
        s2 == IF submitted
              THEN SetItem(s1, "student_data", SavedDetails(name, enrollment, college))
              ELSE s1
    IN  /\ submitted => page = "render_home"
        /\ session_state' = s2
        /\ page' = "render_home"
        /\ run_inputs' = [kind |-> "home", name |-> name, enrollment |-> enrollment,
                          college |-> college, submitted |-> submitted]
        /\ screen' = <<"sidebar", "header", "student_info_form">>
                     \o (IF submitted THEN <<"success_details_saved">> ELSE <<>>)
                     \o (IF Truthy(s2.student_data) THEN <<"saved_details">> ELSE <<>>)
        /\ uploaded_file' = NoFile
        /\ text_content' = <<>>
        /\ model_calls' = <<>>
        /\ summary_out' = <<>>
        /\ UNCHANGED script_vars

\* if "chat_session" not in st.session_state: ... = model.start_chat(history=[])
InitChatSessionEveryRun(s) == SetItem(s, "chat_session", [history |-> <<>>])

InitChatSession(s) ==
    IF ~HasKey(s, "chat_session")
    THEN SetItem(s, "chat_session", [history |-> <<>>])
    ELSE s

\* chat_session.send_message(prompt): the client appends the user turn and the
\* model's continuation to its history when the call returns, nothing when it raises.
SendMessage(chat, prompt, outcome, reply) ==
    IF outcome = "ok"
    THEN [chat EXCEPT !.history = @ \o << [role |-> "user", text |-> prompt],
                                          [role |-> "model", text |-> reply] >>]
    ELSE chat

History(s) == IF HasKey(s, "chat_session") THEN s.chat_session.history ELSE <<>>

\* prompt = "" stands for st.chat_input returning None
render_chat(prompt, outcome, reply) ==
    LET s1 == InitChatSession(session_state)
        asked == prompt # ""
        s2 == IF asked
              THEN SetItem(s1, "chat_session",
                           SendMessage(s1.chat_session, prompt, outcome, reply))
              ELSE s1
    IN  /\ asked => page = "render_chat"
        \* the transcript is unbounded in the code; the model stops it at MaxTurns
        /\ outcome = "ok" => Len(History(s1)) < 2 * MaxTurns
        /\ ~asked => outcome = "none"
        /\ asked => outcome \in {"ok", "failed"}
        /\ session_state' = s2
        /\ page' = "render_chat"
        /\ run_inputs' = [kind |-> "chat", prompt |-> prompt, outcome |-> outcome,
                          reply |-> IF outcome = "ok" THEN reply ELSE ""]
        /\ screen' = <<"sidebar", "header", "greeting">>
                     \o [i \in 1..Len(History(s1)) |-> "history_message"]
                     \o <<"chat_input">>
                     \o (IF ~asked THEN <<>>
                         ELSE IF outcome = "ok" THEN <<"user_message", "response">>
                         ELSE <<"user_message", "error_gemini">>)
        /\ uploaded_file' = NoFile
        /\ text_content' = <<>>
        /\ model_calls' = <<>>
        /\ summary_out' = <<>>
        /\ UNCHANGED script_vars

\* if st.button("Generate Summary"): try: summary = summarizer_model(...)[0]
\* ['summary_text']; st.subheader; st.success(summary) except: st.error(...)
GenerateSummaryShowsStaleSummary(text, pressed, outcome, summary) ==
    IF ~pressed THEN [shown |-> <<>>, calls |-> <<>>, summary |-> <<>>]
    ELSE [shown |-> (IF outcome = "ok" THEN <<>> ELSE <<"error_summarization">>)
                    \o <<"subheader_summary", "success_summary">>,
          calls |-> SummarizerCalls(text, outcome),
          summary |-> <<summary>>]

GenerateSummary(text, pressed, outcome, summary) ==
    IF ~pressed THEN [shown |-> <<>>, calls |-> <<>>, summary |-> <<>>]
    ELSE IF outcome = "ok"
    THEN [shown |-> <<"subheader_summary", "success_summary">>,
          calls |-> SummarizerCalls(text, outcome),
          summary |-> <<summary>>]
    ELSE [shown |-> <<"error_summarization">>,
          calls |-> SummarizerCalls(text, outcome),
          summary |-> <<>>]

render_notes_summarizer(file, pressed, outcome, summary) ==
    LET got == ExtractText(file)
        base == <<"sidebar", "header", "file_uploader">>
    IN  \* the button can be pressed only where the previous run offered it
        /\ pressed => /\ page = "render_notes_summarizer"
                      /\ "generate_summary_button" \in Range(screen)
                      /\ file = uploaded_file
        /\ pressed => outcome \in {"ok", "failed"}
        /\ ~pressed => outcome = "none"
        /\ page' = "render_notes_summarizer"
        /\ uploaded_file' = file
        /\ run_inputs' = [kind |-> "notes", pressed |-> pressed, outcome |-> outcome]
        /\ IF file.type = "none"
           THEN /\ screen' = base
                /\ text_content' = <<>>
                /\ model_calls' = <<>>
                /\ summary_out' = <<>>
           ELSE IF ~got.ok
           THEN /\ screen' = Append(base, "error_failed_to_process")
                /\ text_content' = <<>>
                /\ model_calls' = <<>>
                /\ summary_out' = <<>>
           ELSE IF IsBlank(got.text)
           THEN /\ screen' = Append(base, "warning_no_text")
                /\ text_content' = got.text
                /\ model_calls' = <<>>
                /\ summary_out' = <<>>
           ELSE LET r == GenerateSummary(got.text, pressed, outcome, summary)
                IN  /\ screen' = base \o <<"text_area", "generate_summary_button">>
                                       \o r.shown
                    /\ text_content' = got.text
                    /\ model_calls' = r.calls
                    /\ summary_out' = r.summary
        /\ UNCHANGED <<session_state>>
        /\ UNCHANGED script_vars

render_quiz_section ==
    /\ page' = "render_quiz_section"
    /\ run_inputs' = [kind |-> "quiz"]
    /\ screen' = <<"sidebar", "header", "google_form_iframe">>
    /\ uploaded_file' = NoFile
    /\ text_content' = <<>>
    /\ model_calls' = <<>>
    /\ summary_out' = <<>>
    /\ UNCHANGED <<session_state>>
    /\ UNCHANGED script_vars

ResourcesDict(books, papers) ==
    [k \in {"Book PDFs URLs", "Previous Year Papers URLs"} |->
        IF k = "Book PDFs URLs" THEN books ELSE papers]

\* if "resources" not in st.session_state: ... = {two empty fields}
InitResources(s) ==
    IF ~HasKey(s, "resources")
    THEN SetItem(s, "resources",
                 ResourcesDict("", ""))
    ELSE s

\* st.text_area(label, st.session_state.resources[key])
ResourcesDefault(key) == InitResources(session_state).resources[key]

render_resources(books, papers, submitted) ==
    LET s1 == InitResources(session_state)
        s2 == IF submitted
              THEN SetItem(s1, "resources", ResourcesDict(books, papers))
              ELSE s1
    IN  /\ submitted => page = "render_resources"
        /\ session_state' = s2
        /\ page' = "render_resources"
        /\ run_inputs' = [kind |-> "resources", books |-> books, papers |-> papers,
                          submitted |-> submitted]
        /\ screen' = <<"sidebar", "header", "resources_form">>
                     \o (IF submitted THEN <<"success_resources_saved">> ELSE <<>>)
                     \o <<"saved_resources">>
        /\ uploaded_file' = NoFile
        /\ text_content' = <<>>
        /\ model_calls' = <<>>
        /\ summary_out' = <<>>
        /\ UNCHANGED script_vars

(***************************************************************************)
(* main(): sidebar radio and dispatch                                      *)
(***************************************************************************)
PageOptions == <<"Home", "AI Chatbot", "Notes Summarizer", "Quiz Section", "Resources">>

\* the dict "pages" of main()
pages ==
    [sel \in Range(PageOptions) |->
        CASE sel = "Home" -> "render_home"
          [] sel = "AI Chatbot" -> "render_chat"
          [] sel = "Notes Summarizer" -> "render_notes_summarizer"
          [] sel = "Quiz Section" -> "render_quiz_section"
          [] sel = "Resources" -> "render_resources"]

\* pages[page_selection]() where the sidebar radio returned page_selection;
\* st.radio returns its first option until the user picks another.
Dispatch(page_selection, renderer) ==
    /\ page = "none" => page_selection = PageOptions[1]
    /\ pages[page_selection] = renderer

main(page_selection) ==
    \/ /\ Dispatch(page_selection, "render_home")
       /\ \/ render_home(StudentDefault("Name"), StudentDefault("Enrollment"),
                      StudentDefault("College"), FALSE)
          \/ \E name \in FieldValues, enrollment \in FieldValues,
                college \in FieldValues :
                render_home(name, enrollment, college, TRUE)
    \/ /\ Dispatch(page_selection, "render_chat")
       /\ \/ render_chat("", "none", "")
          \/ \E prompt \in Prompts : render_chat(prompt, "failed", "")
          \/ \E prompt \in Prompts, reply \in Replies :
                render_chat(prompt, "ok", reply)
    \/ /\ Dispatch(page_selection, "render_notes_summarizer")
       /\ \/ \E file \in Uploads : render_notes_summarizer(file, FALSE, "none", "")
          \/ render_notes_summarizer(uploaded_file, TRUE, "failed", "")
          \/ \E summary \in Summaries :
                render_notes_summarizer(uploaded_file, TRUE, "ok", summary)
    \/ /\ Dispatch(page_selection, "render_quiz_section")
       /\ render_quiz_section
    \/ /\ Dispatch(page_selection, "render_resources")
       /\ \/ render_resources(ResourcesDefault("Book PDFs URLs"),
                           ResourcesDefault("Previous Year Papers URLs"), FALSE)
          \/ \E books \in UrlValues, papers \in UrlValues :
                render_resources(books, papers, TRUE)

\* The state in which main() runs: the module level has executed to the entry point.
InitMain ==
    /\ has_api_key = TRUE
    /\ gemini_cached = TRUE
    /\ summarizer_cached = TRUE
    /\ pc = "guard"
    /\ run_log = <<"set_page_config", "configure", "gemini_model", "summarizer_model">>
    /\ uncaught = "none"
    /\ runs = 1
    /\ session_state = EmptyDict
    /\ page = "none"
    /\ run_inputs = NoInputs
    /\ screen = <<>>
    /\ uploaded_file = NoFile
    /\ text_content = <<>>
    /\ model_calls = <<>>
    /\ summary_out = <<>>

NextMain == \E page_selection \in Range(PageOptions) : main(page_selection)

SpecMain == InitMain /\ [][NextMain]_vars

(***************************************************************************)
(* Properties                                                              *)
(***************************************************************************)
NotesPage == page = "render_notes_summarizer"

\* the last run was a press of "Generate Summary"
SummaryRequested == NotesPage /\ run_inputs.pressed

OnScreen(element) == element \in Range(screen)

CeilDiv(a, b) == (a + b - 1) \div b

RECURSIVE Concat(_)
Concat(parts) == IF parts = <<>> THEN <<>> ELSE Head(parts) \o Concat(Tail(parts))

\* the slices of text handed to the model, in call order
ModelInputs == [i \in 1..Len(model_calls) |-> model_calls[i].text]

\* slice i of the partition of text into contiguous pieces of c characters
Slice(text, c, i) ==
    SubSeq(text, (i - 1) * c + 1, IF i * c < Len(text) THEN i * c ELSE Len(text))

\* C1: whenever a summary is generated from a text of length L, then for every
\* chunk size c > 0 the slices handed to the model number ceil(L / c), every
\* slice but the last has exactly c characters, and the slices concatenated are
\* the text.
C1_ChunkingContract ==
    SummaryRequested =>
        \A c \in 1..MaxChunkSize :
            /\ Len(ModelInputs) = CeilDiv(Len(text_content), c)
            /\ \A i \in 1..(Len(ModelInputs) - 1) : Len(ModelInputs[i]) = c
            /\ Concat(ModelInputs) = text_content

\* C2: whenever a summary is generated, the model is called once per slice of
\* the text, in slice order, each call with min_length 40 and max_length 150,
\* and the summary displayed is made of one part per slice, in slice order.
C2_PerChunkSummarization ==
    (SummaryRequested /\ run_inputs.outcome = "ok") =>
        \A c \in 1..MaxChunkSize :
            LET n == CeilDiv(Len(text_content), c)
            IN  /\ Len(model_calls) = n
                /\ \A i \in 1..Len(model_calls) :
                      /\ i <= n => model_calls[i].text = Slice(text_content, c, i)
                      /\ model_calls[i].min_length = 40
                      /\ model_calls[i].max_length = 150
                /\ Len(summary_out) = n

\* an upload whose extraction succeeded and gave only whitespace, or nothing
BlankExtraction ==
    /\ NotesPage
    /\ uploaded_file.type # "none"
    /\ uploaded_file.ok
    /\ \A i \in 1..Len(text_content) : text_content[i] \in {" ", "\n"}

\* C3: when the text extracted from the upload is empty or only whitespace, the
\* page shows the no-text warning, offers no "Generate Summary" button, makes no
\* call of the summarization model and displays no summary.
C3_BlankTextShortCircuits ==
    BlankExtraction =>
        /\ OnScreen("warning_no_text")
        /\ ~OnScreen("generate_summary_button")
        /\ ~OnScreen("text_area")
        /\ model_calls = <<>>
        /\ summary_out = <<>>

C3_Witness ==
    /\ BlankExtraction
    /\ Len(text_content) > 0
    /\ OnScreen("warning_no_text")

\* C4: when a call of the summarization model made for "Generate Summary"
\* fails, the page shows the summarization error and no summary at all.
C4_FailedSummaryShowsOnlyError ==
    (NotesPage /\ \E i \in 1..Len(model_calls) : ~model_calls[i].ok) =>
        /\ OnScreen("error_summarization")
        /\ ~OnScreen("success_summary")
        /\ ~OnScreen("subheader_summary")
        /\ summary_out = <<>>

C4_Witness ==
    /\ SummaryRequested
    /\ Len(model_calls) = 1
    /\ ~model_calls[1].ok
    /\ OnScreen("error_summarization")

\* C5: no script run ends with an uncaught exception raised by an external
\* call (file parsing, model loading or inference, chat transport).
C5_ExternalFailuresCaught ==
    uncaught \notin {"load_gemini_model", "load_summarizer_pipeline"}

\* C6: a script run that finds no API key in the secret store shows the error
\* and stops at once: it loads no model, renders no page and leaves the caches
\* and the session state as they were.
C6_MissingKeyStops ==
    [][(pc = "configure" /\ ~has_api_key) =>
        /\ pc' = "ended"
        /\ run_log' = run_log \o <<"st.error", "st.stop">>
        /\ uncaught' = "none"
        /\ UNCHANGED <<gemini_cached, summarizer_cached>>
        /\ UNCHANGED page_vars]_vars

C6_Witness ==
    /\ pc = "ended"
    /\ ~has_api_key
    /\ run_log = <<"set_page_config", "st.error", "st.stop">>

ChatTurn(prompt, reply) ==
    << [role |-> "user", text |-> prompt], [role |-> "model", text |-> reply] >>

\* C7: across chat-page runs the transcript only grows at its end: a turn whose
\* send succeeds appends the user message followed by one model continuation,
\* a turn whose send fails leaves the transcript as it was and shows the error,
\* and no other run changes the transcript.
C7_TranscriptAppendOnly ==
    [][LET before == History(session_state)
           after == History(session_state')
           sent == page' = "render_chat" /\ run_inputs'.prompt # ""
       IN  /\ Len(after) >= Len(before)
           /\ SubSeq(after, 1, Len(before)) = before
           /\ (sent /\ run_inputs'.outcome = "ok") =>
                 after = before \o ChatTurn(run_inputs'.prompt, run_inputs'.reply)
           /\ (sent /\ run_inputs'.outcome = "failed") =>
                 /\ after = before
                 /\ "error_gemini" \in Range(screen')
           /\ ~sent => after = before]_vars

C7_Witness ==
    /\ page = "render_chat"
    /\ run_inputs.outcome = "failed"
    /\ Len(History(session_state)) = 2
    /\ OnScreen("error_gemini")

Profile(s) == IF HasKey(s, "student_data") THEN s.student_data ELSE EmptyDict

\* C8 as stated: the profile is empty or holds the four fields name, enrollment
\* number, college and semester.
C8_ProfileFourFields ==
    \/ DOMAIN Profile(session_state) = {}
    \/ DOMAIN Profile(session_state) = {"Name", "Enrollment", "College", "Semester"}

\* C8 amended: the profile is empty or holds the three string fields Name,
\* Enrollment and College as last submitted, and only a "Save Details"
\* submission changes it.
C8_ProfileThreeFields ==
    [][LET before == Profile(session_state)
           after == Profile(session_state')
           saved == page' = "render_home" /\ run_inputs'.submitted
       IN  /\ \/ DOMAIN after = {}
              \/ /\ DOMAIN after = {"Name", "Enrollment", "College"}
                 /\ \A k \in DOMAIN after : after[k] \in FieldValues
           /\ saved => /\ DOMAIN after = {"Name", "Enrollment", "College"}
                       /\ after["Name"] = run_inputs'.name
                       /\ after["Enrollment"] = run_inputs'.enrollment
                       /\ after["College"] = run_inputs'.college
           /\ ~saved => /\ DOMAIN after = DOMAIN before
                        /\ \A k \in DOMAIN after : after[k] = before[k]]_vars

C8_Witness ==
    /\ page = "render_home"
    /\ run_inputs.submitted
    /\ DOMAIN Profile(session_state) = {"Name", "Enrollment", "College"}
    /\ Profile(session_state)["Name"] = "a"
    /\ Profile(session_state)["Enrollment"] = ""

\* a PDF that PdfReader could read
PdfRead == NotesPage /\ uploaded_file.type = "application/pdf" /\ uploaded_file.ok

\* the text of the pages that have text, in page order, separated by newlines
RECURSIVE JoinedPages(_, _)
JoinedPages(pgs, first) ==
    IF pgs = <<>> THEN <<>>
    ELSE IF Head(pgs) = <<>> THEN JoinedPages(Tail(pgs), first)
    ELSE (IF first THEN <<>> ELSE <<"\n">>) \o Head(pgs) \o JoinedPages(Tail(pgs), FALSE)

ProceedsToSummarizer ==
    /\ OnScreen("text_area")
    /\ OnScreen("generate_summary_button")
    /\ ~OnScreen("warning_no_text")
    /\ ~OnScreen("error_failed_to_process")

\* C9 as stated: the extracted text is the newline-joined text of the pages that
\* have text, and a PDF with at least one page that has text proceeds to the
\* summarizer.
C9_AnyTextPageProceeds ==
    PdfRead =>
        /\ text_content = JoinedPages(uploaded_file.pages, TRUE)
        /\ (\E i \in 1..Len(uploaded_file.pages) : uploaded_file.pages[i] # <<>>)
              => ProceedsToSummarizer

\* C9 amended: the extracted text is the newline-joined text of the pages whose
\* text is not empty, in page order, and a PDF with at least one page holding a
\* character that is not whitespace proceeds to the summarizer.
C9_NonBlankPageProceeds ==
    PdfRead =>
        /\ text_content = JoinedPages(uploaded_file.pages, TRUE)
        /\ (\E i \in 1..Len(uploaded_file.pages) :
               \E j \in 1..Len(uploaded_file.pages[i]) :
                  uploaded_file.pages[i][j] \notin {" ", "\n"})
              => ProceedsToSummarizer

C9_Witness ==
    /\ PdfRead
    /\ uploaded_file.pages = << <<>>, <<"a">> >>
    /\ text_content = <<"a">>
    /\ ProceedsToSummarizer

\* C10: a script run that found the API key and loaded both models ends having
\* invoked one page renderer through main(), with no uncaught error.
C10_RunRendersSelectedPage ==
    (pc = "ended" /\ "summarizer_model" \in Range(run_log)) =>
        /\ uncaught = "none"
        /\ page \in {pages[sel] : sel \in Range(PageOptions)}

====
